---- MODULE Spec2Model ----
(***************************************************************************)
(* docker-rl: one run of `main` (src/main.rs) -- token acquisition, then   *)
(* one rate-limit probe (src/limit.rs: get_limit, parse_header, Display).  *)
(*                                                                         *)
(* Strings are sequences of one-character strings.  A u64 is its canonical *)
(* decimal digit sequence (no leading zeros, <<0>> for zero), so the full  *)
(* 64-bit range and its overflow are kept.                                 *)
(***************************************************************************)
EXTENDS Integers, Sequences, FiniteSets, TLC

VARIABLES
    pc,         \* position of main: "start", "token_wait", "probe_wait", "done", "exited", "panicked"
    opts,       \* Opts { user, pass } as parsed from the command line
    prompt,     \* read_password_from_tty: "not_asked", "answered" or "failed"
    inflight,   \* network calls sent and not yet awaited to completion
    tokenReq,   \* the token request as sent
    tokenResp,  \* the token endpoint's answer, once delivered
    tokenResult,\* DrlResult<Token> returned by get_token
    probeReq,   \* the probe request as sent
    probeResp,  \* the registry's answer to the probe, once delivered
    result,     \* DrlResult<Limit> returned by get_limit
    stdout,     \* lines printed by println!
    exit,       \* error the run exited with through err_out
    sent        \* requests sent so far, in order

vars == <<pc, opts, prompt, inflight, tokenReq, tokenResp, tokenResult, probeReq,
          probeResp, result, stdout, exit, sent>>

----------------------------------------------------------------------------
(* Bounds *)

\* longest header value enumerated exhaustively over Alphabet
MaxLen == 2

----------------------------------------------------------------------------
(* Characters and strings *)

Digits == <<"0", "1", "2", "3", "4", "5", "6", "7", "8", "9">>

\* a byte >= 0x80: legal in a header value, not visible ASCII
ObsByte == "0xFF"

IsDigitChar(c) == \E i \in 1..10 : Digits[i] = c

\* char::to_digit(10), for a digit character
to_digit(c) == (CHOOSE i \in 1..10 : Digits[i] = c) - 1

\* HeaderValue::to_str succeeds iff every byte is visible ASCII (or tab)
to_str_ok(bytes) == \A i \in 1..Len(bytes) : bytes[i] # ObsByte

\* str::find: the 0-based index of the first occurrence of c, or -1 for None
find(s, c) ==
    IF \E i \in 1..Len(s) : s[i] = c
    THEN (CHOOSE i \in 1..Len(s) : s[i] = c /\ \A j \in 1..(i - 1) : s[j] # c) - 1
    ELSE -1

----------------------------------------------------------------------------
(* u64 *)

\* u64::MAX = 18446744073709551615
U64_MAX == <<1, 8, 4, 4, 6, 7, 4, 4, 0, 7, 3, 7, 0, 9, 5, 5, 1, 6, 1, 5>>

\* a > b for canonical digit sequences
DigitsGreater(a, b) ==
    IF Len(a) # Len(b) THEN Len(a) > Len(b)
    ELSE \E i \in 1..Len(a) : a[i] > b[i] /\ \A j \in 1..(i - 1) : a[j] = b[j]

Overflows(n) == DigitsGreater(n, U64_MAX)

\* n * 10 + d before the range check
MulAdd(n, d) == IF n = <<0>> THEN <<d>> ELSE Append(n, d)

ParseOk(n) == [tag |-> "Ok", val |-> n, cause |-> "none"]
ParseErr(why) == [tag |-> "Err", val |-> <<>>, cause |-> why]

\* one turn of the digit loop of from_str_radix on character c:
\* to_digit, checked_mul(10), checked_add(digit)
ParseDigit(acc, c) ==
    IF ~IsDigitChar(c) THEN ParseErr("invalid digit found in string")
    ELSE IF Overflows(MulAdd(acc, 0)) THEN ParseErr("number too large to fit in target type")
    ELSE IF Overflows(MulAdd(acc, to_digit(c)))
    THEN ParseErr("number too large to fit in target type")
    ELSE ParseOk(MulAdd(acc, to_digit(c)))

\* the digit loop over `digits`, from result 0; the first error ends it
ParseDigits(digits) ==
    LET after[i \in 0..Len(digits)] ==
            IF i = 0 THEN ParseOk(<<0>>)
            ELSE CHOOSE r \in {IF before.tag = "Err" THEN before
                               ELSE ParseDigit(before.val, digits[i]) :
                               before \in {after[i - 1]}} : TRUE
    IN  after[Len(digits)]

\* <u64 as FromStr>::from_str: empty is an error, a lone sign is an error, one
\* leading '+' is accepted, '-' is not a digit
u64_from_str(src) ==
    IF src = <<>> THEN ParseErr("cannot parse integer from empty string")
    ELSE IF Len(src) = 1 /\ src[1] \in {"+", "-"} THEN ParseErr("invalid digit found in string")
    ELSE IF src[1] = "+" THEN ParseDigits(Tail(src))
    ELSE ParseDigits(src)

\* <u64 as Display>::fmt: decimal, no leading zeros
u64_fmt(n) == [i \in 1..Len(n) |-> Digits[n[i] + 1]]

----------------------------------------------------------------------------
(* Errors and results *)

None == "None"

NoErr == [kind |-> "None", msg |-> "", status |-> 0, cause |-> "none"]

\* DrlErr::new(msg, code); status and cause are the values formatted into msg
DrlErr(msg, code, status, cause) ==
    [kind |-> code, msg |-> msg, status |-> status, cause |-> cause]

Ok(v) == [tag |-> "Ok", val |-> v, err |-> NoErr]
Err(e) == [tag |-> "Err", val |-> <<>>, err |-> e]

NoLimit == [remaining |-> <<>>, total |-> <<>>]
NoResult == [tag |-> "None", limit |-> NoLimit, err |-> NoErr]
OkLimit(l) == [tag |-> "Ok", limit |-> l, err |-> NoErr]
ErrLimit(e) == [tag |-> "Err", limit |-> NoLimit, err |-> e]

----------------------------------------------------------------------------
(* src/limit.rs *)

OK == 200
TOO_MANY_REQUESTS == 429

\* struct Limit { remaining, total }
Limit(remaining, total) == [remaining |-> remaining, total |-> total]

\* variant: the two fields are printed in the other order
DisplayLimitSwapped(l) == u64_fmt(l.total) \o <<"/">> \o u64_fmt(l.remaining)

\* impl fmt::Display for Limit: "{}/{}", remaining, total
DisplayLimit(l) == u64_fmt(l.remaining) \o <<"/">> \o u64_fmt(l.total)

\* variant: cuts at the last semicolon instead of the first
TruncateAtLastSemicolon(value) ==
    LET cut == {i \in 1..Len(value) : value[i] = ";"}
        end == IF cut = {} THEN Len(value)
               ELSE (CHOOSE i \in cut : \A j \in cut : j <= i) - 1
    IN  SubSeq(value, 1, end)

\* the value up to the first semicolon, or the end
TruncateAtSemicolon(value) ==
    LET at == find(value, ";")
        end == IF at = -1 THEN Len(value) ELSE at
    IN  SubSeq(value, 1, end)

\* variant: a header that is missing or does not parse reads as u64::default()
parse_header_or_default(headers, key) ==
    LET header == headers[key] IN
    IF ~header.present \/ ~to_str_ok(header.bytes) THEN Ok(<<0>>)
    ELSE LET parsed == u64_from_str(TruncateAtSemicolon(header.bytes)) IN
         IF parsed.tag = "Ok" THEN Ok(parsed.val) ELSE Ok(<<0>>)

\* fn parse_header::<u64>(headers, key)
parse_header(headers, key) ==
    LET header == headers[key] IN
    IF ~header.present
    THEN Err(DrlErr("error parsing rate limit", "Parsing", 0, "none"))
    ELSE IF ~to_str_ok(header.bytes)
    THEN Err(DrlErr("error parsing rate limit: {}", "Parsing", 0,
                    "failed to convert header to a str"))
    ELSE LET parsed == u64_from_str(TruncateAtSemicolon(header.bytes)) IN
         IF parsed.tag = "Ok"
         THEN Ok(parsed.val)
         ELSE Err(DrlErr("error parsing rate limit: {}", "Parsing", 0, parsed.cause))

\* variant: every 2xx status proceeds to the headers
ClassifyStatusAnySuccess(status) ==
    IF status >= 200 /\ status < 300 THEN Ok(<<>>)
    ELSE IF status = TOO_MANY_REQUESTS
    THEN Err(DrlErr("over limit", "OverLimit", 0, "none"))
    ELSE Err(DrlErr("error connecting to docker.io: {}", "Connection", status, "none"))

\* the match on resp.status(): "ok" proceeds to the headers
ClassifyStatus(status) ==
    IF status = OK THEN Ok(<<>>)
    ELSE IF status = TOO_MANY_REQUESTS
    THEN Err(DrlErr("over limit", "OverLimit", 0, "none"))
    ELSE Err(DrlErr("error connecting to docker.io: {}", "Connection", status, "none"))

\* variant: a failing `remaining` falls back to u64::default()
ExtractLimitPartial(headers) ==
    LET total == parse_header(headers, "ratelimit-limit") IN
    IF total.tag = "Err" THEN ErrLimit(total.err)
    ELSE LET remaining == parse_header(headers, "ratelimit-remaining") IN
         IF remaining.tag = "Err" THEN OkLimit(Limit(<<0>>, total.val))
         ELSE OkLimit(Limit(remaining.val, total.val))

\* the header extraction of get_limit: total first, then remaining, each with `?`
ExtractLimit(headers) ==
    LET total == parse_header(headers, "ratelimit-limit") IN
    IF total.tag = "Err" THEN ErrLimit(total.err)
    ELSE LET remaining == parse_header(headers, "ratelimit-remaining") IN
         IF remaining.tag = "Err" THEN ErrLimit(remaining.err)
         ELSE OkLimit(Limit(remaining.val, total.val))

\* variant: the headers are read before the status is looked at
GetLimitOutcomeHeadersFirst(resp) ==
    IF ~resp.sent_ok
    THEN ErrLimit(DrlErr("failed to connect to docker.io: {}", "Connection", 0, resp.cause))
    ELSE LET l == ExtractLimit(resp.headers)
             st == ClassifyStatus(resp.status)
         IN  IF l.tag = "Ok" THEN l
             ELSE IF st.tag = "Err" THEN ErrLimit(st.err)
             ELSE l

\* get_limit from the completion of req.send().await on
GetLimitOutcome(resp) ==
    IF ~resp.sent_ok
    THEN ErrLimit(DrlErr("failed to connect to docker.io: {}", "Connection", 0, resp.cause))
    ELSE LET st == ClassifyStatus(resp.status) IN
         IF st.tag = "Err" THEN ErrLimit(st.err)
         ELSE ExtractLimit(resp.headers)

----------------------------------------------------------------------------
(* Token acquisition: get_anon_token, get_userpass_token *)

UNAUTHORIZED == 401
FORBIDDEN == 403

NoToken == [token |-> None]

OkToken(t) == [tag |-> "Ok", token |-> t, err |-> NoErr]
ErrToken(e) == [tag |-> "Err", token |-> NoToken, err |-> e]
NoTokenResult == [tag |-> "None", token |-> NoToken, err |-> NoErr]

\* variant: a rejected credentialed request is reported like any other status
TokenOutcomeNoAuth(req, resp) ==
    IF ~resp.sent_ok
    THEN ErrToken(DrlErr("failed to connect to docker.io: {}", "Connection", 0, resp.cause))
    ELSE IF resp.status # OK
    THEN ErrToken(DrlErr("error connecting to docker.io: {}", "Connection", resp.status, "none"))
    ELSE IF resp.body.json /\ resp.body.token # None
    THEN OkToken([token |-> resp.body.token])
    ELSE ErrToken(DrlErr("error parsing token: {}", "Parsing", 0, "invalid token body"))

\* the outcome of a token request: a failed call is a Connection error, a
\* rejected credentialed request an Auth error, any other unexpected status a
\* Connection error, a body without a JSON `token` field a Parsing error
TokenOutcome(req, resp) ==
    IF ~resp.sent_ok
    THEN ErrToken(DrlErr("failed to connect to docker.io: {}", "Connection", 0, resp.cause))
    ELSE IF req.auth /\ resp.status \in {UNAUTHORIZED, FORBIDDEN}
    THEN ErrToken(DrlErr("authentication rejected: {}", "Auth", resp.status, "none"))
    ELSE IF resp.status # OK
    THEN ErrToken(DrlErr("error connecting to docker.io: {}", "Connection", resp.status, "none"))
    ELSE IF resp.body.json /\ resp.body.token # None
    THEN OkToken([token |-> resp.body.token])
    ELSE ErrToken(DrlErr("error parsing token: {}", "Parsing", 0, "invalid token body"))

----------------------------------------------------------------------------
(* Inputs *)

Alphabet == {"0", "7", ";", "a", "+"}

\* every string over Alphabet of length at most n
StrsUpTo(n) == UNION {[1..k -> Alphabet] : k \in 0..n}

Window == <<";", "w", "=", "2", "1", "6", "0", "0">>

\* header values as the registry sends them, one of each way to fail
ScenarioValues ==
    { <<"1", "0", "0">> \o Window,
      <<"9", "7">> \o Window,
      <<"a", "b", "c", ";", "w", "=", "1">>,
      <<";", "w", "=", "1">>,
      <<"1", "0", "0", ";", "w", "=", ObsByte>>,
      <<"1", "8", "4", "4", "6", "7", "4", "4", "0", "7", "3", "7", "0", "9", "5", "5", "1", "6", "1", "5">>,
      <<"1", "8", "4", "4", "6", "7", "4", "4", "0", "7", "3", "7", "0", "9", "5", "5", "1", "6", "1", "6">> }

\* those, and the other edges of u64 parsing
NamedValues ==
    ScenarioValues \cup
    { <<"0">>,
      <<"0", "0", "7">> \o Window,
      <<"-", "1">>,
      <<"+", "5">>,
      <<"+">>,
      <<"1", "0", "0", " ">>,
      <<"5", ";", "6", ";", "7">>,
      <<ObsByte>>,
      <<"1", "8", "4", "4", "6", "7", "4", "4", "0", "7", "3", "7", "0", "9", "5", "5", "1", "6", "1", "5", "0">>,
      <<"9", "9", "9", "9", "9", "9", "9", "9", "9", "9", "9", "9", "9", "9", "9", "9", "9", "9", "9", "9">> \o Window }

HeaderValues == StrsUpTo(MaxLen) \cup NamedValues

Absent == [present |-> FALSE, bytes |-> <<>>]
Present(bytes) == [present |-> TRUE, bytes |-> bytes]

HeaderOptions == {Absent} \cup {Present(b) : b \in HeaderValues}

HeaderKeys == {"ratelimit-limit", "ratelimit-remaining"}

NoHeaders == [k \in HeaderKeys |-> Absent]

ProbeStatuses == {OK, 204, FORBIDDEN, TOO_MANY_REQUESTS, 500}

NoProbeResp ==
    [delivered |-> FALSE, sent_ok |-> FALSE, cause |-> "none", status |-> 0,
     headers |-> NoHeaders]

ProbeResponses ==
    {[delivered |-> TRUE, sent_ok |-> FALSE, cause |-> "dns error", status |-> 0,
      headers |-> NoHeaders]}
    \cup
    {[delivered |-> TRUE, sent_ok |-> TRUE, cause |-> "none", status |-> st,
      headers |-> [k \in HeaderKeys |-> IF k = "ratelimit-limit" THEN l ELSE r]] :
        st \in ProbeStatuses, l \in HeaderOptions, r \in HeaderOptions}

\* the answers whose headers are absent or among the scenario values
ScenarioProbeResponses ==
    {r \in ProbeResponses :
        \A k \in HeaderKeys : r.headers[k].present => r.headers[k].bytes \in ScenarioValues}

NoBody == [json |-> FALSE, token |-> None]

TokenBodies ==
    {[json |-> TRUE, token |-> "abc"], [json |-> TRUE, token |-> "xyz"],
     [json |-> TRUE, token |-> None], NoBody}

TokenStatuses == {OK, UNAUTHORIZED, FORBIDDEN, 500}

NoTokenResp ==
    [delivered |-> FALSE, sent_ok |-> FALSE, cause |-> "none", status |-> 0, body |-> NoBody]

TokenResponses ==
    {[delivered |-> TRUE, sent_ok |-> FALSE, cause |-> "dns error", status |-> 0,
      body |-> NoBody]}
    \cup
    {[delivered |-> TRUE, sent_ok |-> TRUE, cause |-> "none", status |-> st, body |-> b] :
        st \in TokenStatuses, b \in TokenBodies}

OptsValues == [user : {None, "someuser"}, pass : {None, "somepass"}]

NoTokenReq == [sent |-> FALSE, auth |-> FALSE, user |-> None, pass |-> None]
NoProbeReq == [sent |-> FALSE, bearer |-> None]

----------------------------------------------------------------------------
(* src/main.rs *)

Init ==
    /\ pc = "start"
    /\ opts \in OptsValues
    /\ prompt = "not_asked"
    /\ inflight = {}
    /\ tokenReq = NoTokenReq
    /\ tokenResp = NoTokenResp
    /\ tokenResult = NoTokenResult
    /\ probeReq = NoProbeReq
    /\ probeResp = NoProbeResp
    /\ result = NoResult
    /\ stdout = <<>>
    /\ exit = NoErr
    /\ sent = <<>>

\* get_token chooses the request: Basic auth iff a user was given
TokenRequestFor(user, pass) ==
    IF user # None
    THEN [sent |-> TRUE, auth |-> TRUE, user |-> user, pass |-> pass]
    ELSE [sent |-> TRUE, auth |-> FALSE, user |-> None, pass |-> None]

\* e.err_out(): the run ends with the error
ErrOut(e) ==
    /\ exit' = e
    /\ pc' = "exited"

\* get_limit up to req.send().await: the probe goes out with the bearer token
SendProbe(t) ==
    /\ probeReq' = [sent |-> TRUE, bearer |-> t.token]
    /\ inflight' = {"probe"}
    /\ sent' = Append(sent, "probe")
    /\ pc' = "probe_wait"

\* variant: the probe is sent alongside the token request instead of after it
MainStartJoined ==
    /\ pc = "start"
    /\ prompt' = "not_asked"
    /\ tokenReq' = TokenRequestFor(opts.user, opts.pass)
    /\ probeReq' = [sent |-> TRUE, bearer |-> None]
    /\ inflight' = {"token", "probe"}
    /\ sent' = sent \o <<"token", "probe">>
    /\ pc' = "token_wait"
    /\ UNCHANGED <<opts, tokenResp, tokenResult, probeResp, result, stdout, exit>>

\* main from parse_args to the first await of the token request; the password
\* prompt is asked only for a user without a password, and its failure panics
MainStart ==
    /\ pc = "start"
    /\ \E answer \in {"typed", "failed"} :
         LET asked == opts.user # None /\ opts.pass = None IN
         IF asked /\ answer = "failed"
         THEN /\ prompt' = "failed"
              /\ pc' = "panicked"
              /\ UNCHANGED <<tokenReq, inflight, sent>>
         ELSE /\ prompt' = IF asked THEN "answered" ELSE "not_asked"
              /\ tokenReq' = TokenRequestFor(opts.user, IF asked THEN answer ELSE opts.pass)
              /\ inflight' = {"token"}
              /\ sent' = Append(sent, "token")
              /\ pc' = "token_wait"
    /\ UNCHANGED <<opts, tokenResp, tokenResult, probeReq, probeResp, result, stdout, exit>>

\* the token endpoint answers, or the call fails
NetTokenReply ==
    /\ "token" \in inflight
    /\ ~tokenResp.delivered
    /\ tokenResp' \in TokenResponses
    /\ UNCHANGED <<pc, opts, prompt, inflight, tokenReq, tokenResult, probeReq, probeResp,
                   result, stdout, exit, sent>>

\* variant: a failed token acquisition falls through to the probe
MainTokenResumeIgnoringError ==
    /\ pc = "token_wait"
    /\ tokenResp.delivered
    /\ \E r \in {TokenOutcome(tokenReq, tokenResp)} :
       /\ tokenResult' = r
       /\ SendProbe(r.token)
    /\ UNCHANGED <<opts, prompt, tokenReq, tokenResp, probeResp, result, stdout, exit>>

\* main resumes with get_token's result: err_out on an error, else get_limit
\* runs up to the await of the probe request
MainTokenResume ==
    /\ pc = "token_wait"
    /\ tokenResp.delivered
    /\ \E r \in {TokenOutcome(tokenReq, tokenResp)} :
       /\ tokenResult' = r
       /\ IF r.tag = "Err"
          THEN /\ ErrOut(r.err)
               /\ inflight' = {}
               /\ UNCHANGED <<probeReq, sent>>
          ELSE /\ SendProbe(r.token)
               /\ UNCHANGED exit
    /\ UNCHANGED <<opts, prompt, tokenReq, tokenResp, probeResp, result, stdout>>

\* the registry answers the probe with one of `answers`, or the call fails
NetProbeReplyFrom(answers) ==
    /\ "probe" \in inflight
    /\ ~probeResp.delivered
    /\ probeResp' \in answers
    /\ UNCHANGED <<pc, opts, prompt, inflight, tokenReq, tokenResp, tokenResult, probeReq,
                   result, stdout, exit, sent>>

NetProbeReply == NetProbeReplyFrom(ProbeResponses)

NetProbeReplyScenario == NetProbeReplyFrom(ScenarioProbeResponses)

\* variant: an over-limit answer is retried with the same token
MainProbeResumeRetrying ==
    /\ pc = "probe_wait"
    /\ probeResp.delivered
    /\ \E r \in {GetLimitOutcome(probeResp)} :
       IF r.tag = "Err" /\ r.err.kind = "OverLimit"
       THEN /\ probeResp' = NoProbeResp
            /\ sent' = Append(sent, "probe")
            /\ UNCHANGED <<pc, inflight, result, stdout, exit>>
       ELSE /\ result' = r
            /\ inflight' = {}
            /\ IF r.tag = "Err"
               THEN /\ ErrOut(r.err)
                    /\ UNCHANGED stdout
               ELSE /\ stdout' = Append(stdout, DisplayLimit(r.limit))
                    /\ pc' = "done"
                    /\ UNCHANGED exit
            /\ UNCHANGED <<probeResp, sent>>
    /\ UNCHANGED <<opts, prompt, tokenReq, tokenResp, tokenResult, probeReq>>

\* get_limit resumes and returns; main prints the limit or leaves through err_out
MainProbeResume ==
    /\ pc = "probe_wait"
    /\ probeResp.delivered
    /\ \E r \in {GetLimitOutcome(probeResp)} :
       /\ result' = r
       /\ IF r.tag = "Err"
          THEN /\ ErrOut(r.err)
               /\ UNCHANGED stdout
          ELSE /\ stdout' = Append(stdout, DisplayLimit(r.limit))
               /\ pc' = "done"
               /\ UNCHANGED exit
    /\ inflight' = {}
    /\ UNCHANGED <<opts, prompt, tokenReq, tokenResp, tokenResult, probeReq, probeResp, sent>>

Next ==
    \/ MainStart
    \/ NetTokenReply
    \/ MainTokenResume
    \/ NetProbeReply
    \/ MainProbeResume

Spec == Init /\ [][Next]_vars

NextScenario ==
    \/ MainStart
    \/ NetTokenReply
    \/ MainTokenResume
    \/ NetProbeReplyScenario
    \/ MainProbeResume

\* the runtime resumes main whenever the awaited call has completed; the
\* network is under no obligation to answer.  The probe's answers are the
\* scenario ones.
FairSpec ==
    /\ Init
    /\ [][NextScenario]_vars
    /\ WF_vars(MainStart)
    /\ WF_vars(MainTokenResume)
    /\ WF_vars(MainProbeResume)

\* the probe's state as the design names it
ProbeState ==
    IF ~probeReq.sent THEN "Unsent"
    ELSE IF result.tag = "None" THEN "Sent"
    ELSE IF result.tag = "Ok" THEN "Success"
    ELSE IF result.err.kind = "OverLimit" THEN "OverLimit"
    ELSE "Failed"

----------------------------------------------------------------------------
(* What a header value means, stated apart from the parsing code *)

DecimalChars == {"0", "1", "2", "3", "4", "5", "6", "7", "8", "9"}

ValueOfChar(c) ==
    CASE c = "0" -> 0 [] c = "1" -> 1 [] c = "2" -> 2 [] c = "3" -> 3 [] c = "4" -> 4
      [] c = "5" -> 5 [] c = "6" -> 6 [] c = "7" -> 7 [] c = "8" -> 8 [] c = "9" -> 9

\* the part of v before its first semicolon
PrefixOf(v) ==
    LET n == CHOOSE k \in 0..Len(v) :
                 /\ \A i \in 1..k : v[i] # ";"
                 /\ (k = Len(v) \/ v[k + 1] = ";")
    IN  [i \in 1..n |-> v[i]]

IsDecimal(p) == Len(p) > 0 /\ \A i \in 1..Len(p) : p[i] \in DecimalChars

\* the number a decimal numeral denotes, as canonical digits
NumberOf(p) ==
    LET nz == {i \in 1..Len(p) : p[i] # "0"}
        first == IF nz = {} THEN Len(p) ELSE CHOOSE i \in nz : \A j \in nz : i <= j
    IN  [i \in 1..(Len(p) - first + 1) |-> ValueOfChar(p[first + i - 1])]

FitsU64(n) ==
    \/ Len(n) < Len(U64_MAX)
    \/ /\ Len(n) = Len(U64_MAX)
       /\ \/ n = U64_MAX
          \/ \E i \in 1..Len(n) : n[i] < U64_MAX[i] /\ \A j \in 1..(i - 1) : n[j] = U64_MAX[j]

ReadableAsText(bytes) == \A i \in 1..Len(bytes) : bytes[i] # ObsByte

\* a numeral Rust reads as a u64: decimal digits, one optional leading plus sign
Unsigned(p) == IF Len(p) > 0 /\ p[1] = "+" THEN [i \in 1..(Len(p) - 1) |-> p[i + 1]] ELSE p

ReadsAsU64(p) == IsDecimal(Unsigned(p)) /\ FitsU64(NumberOf(Unsigned(p)))

HeaderGood(h) == h.present /\ ReadableAsText(h.bytes) /\ ReadsAsU64(PrefixOf(h.bytes))

HeaderNumber(h) == NumberOf(Unsigned(PrefixOf(h.bytes)))

LimitHeader == probeResp.headers["ratelimit-limit"]
RemainingHeader == probeResp.headers["ratelimit-remaining"]

\* get_limit has returned for a probe that was answered with a status
Answered == result.tag # "None" /\ probeResp.sent_ok

----------------------------------------------------------------------------
(* Claims *)

\* C1: a 429 answer to the probe gives an OverLimit error whatever the
\* response headers hold; never a Limit, never a Parsing error.
C1_OverLimitOn429 ==
    (Answered /\ probeResp.status = TOO_MANY_REQUESTS) =>
        /\ result.tag = "Err"
        /\ result.err.kind = "OverLimit"
        /\ result.limit = NoLimit
        /\ exit.kind = "OverLimit"
        /\ stdout = <<>>

C1_Witness ==
    /\ Answered
    /\ probeResp.status = TOO_MANY_REQUESTS
    /\ HeaderGood(LimitHeader)
    /\ HeaderGood(RemainingHeader)
    /\ result.err.kind = "OverLimit"

\* C2: every status other than 200 and 429 gives a Connection error carrying
\* that status, and a Limit is returned only for status 200.
C2_OtherStatusIsConnection ==
    Answered =>
        /\ probeResp.status \notin {OK, TOO_MANY_REQUESTS} =>
              /\ result.tag = "Err"
              /\ result.err.kind = "Connection"
              /\ result.err.status = probeResp.status
              /\ exit = result.err
        /\ result.tag = "Ok" => probeResp.status = OK

C2_Witness ==
    /\ Answered
    /\ probeResp.status = 204
    /\ HeaderGood(LimitHeader)
    /\ HeaderGood(RemainingHeader)
    /\ result.err.kind = "Connection"
    /\ result.err.status = 204

\* C3: on a 200 answer, a rate-limit header that is absent, not text, or whose
\* prefix is not a u64 numeral gives a Parsing error; no default or zero value
\* stands in for it.
C3_BadHeaderIsParsingError ==
    (Answered /\ probeResp.status = OK
       /\ (~HeaderGood(LimitHeader) \/ ~HeaderGood(RemainingHeader))) =>
        /\ result.tag = "Err"
        /\ result.err.kind = "Parsing"
        /\ result.limit = NoLimit
        /\ exit.kind = "Parsing"
        /\ stdout = <<>>

C3_Witness ==
    /\ Answered
    /\ probeResp.status = OK
    /\ HeaderGood(LimitHeader)
    /\ RemainingHeader.present
    /\ ReadableAsText(RemainingHeader.bytes)
    /\ IsDecimal(PrefixOf(RemainingHeader.bytes))
    /\ ~FitsU64(NumberOf(PrefixOf(RemainingHeader.bytes)))
    /\ result.err.kind = "Parsing"

\* C4 as claimed: whenever the prefix before the first semicolon is a decimal
\* numeral n, parse_header returns exactly n, whatever follows the semicolon.
C4_AnyDecimalPrefixParses ==
    (probeResp.delivered /\ probeResp.sent_ok) =>
        \A k \in HeaderKeys :
            LET h == probeResp.headers[k] IN
            (h.present /\ IsDecimal(PrefixOf(h.bytes))) =>
                parse_header(probeResp.headers, k) = Ok(NumberOf(PrefixOf(h.bytes)))

\* C4 as it holds: for a header value readable as text whose prefix before the
\* first semicolon is a decimal numeral n <= u64::MAX, parse_header returns
\* exactly n; the cut is at the first semicolon and the rest of the text does
\* not change the number.
C4_TextDecimalPrefixParses ==
    (probeResp.delivered /\ probeResp.sent_ok) =>
        /\ \A k \in HeaderKeys :
              LET h == probeResp.headers[k] IN
              (/\ h.present
               /\ ReadableAsText(h.bytes)
               /\ IsDecimal(PrefixOf(h.bytes))
               /\ FitsU64(NumberOf(PrefixOf(h.bytes)))) =>
                  parse_header(probeResp.headers, k) = Ok(NumberOf(PrefixOf(h.bytes)))
        /\ (/\ Answered
            /\ probeResp.status = OK
            /\ \A k \in HeaderKeys :
                  LET h == probeResp.headers[k] IN
                  /\ h.present
                  /\ ReadableAsText(h.bytes)
                  /\ IsDecimal(PrefixOf(h.bytes))
                  /\ FitsU64(NumberOf(PrefixOf(h.bytes)))) =>
               /\ result.tag = "Ok"
               /\ result.limit.total = NumberOf(PrefixOf(LimitHeader.bytes))
               /\ result.limit.remaining = NumberOf(PrefixOf(RemainingHeader.bytes))

C4_Witness ==
    /\ Answered
    /\ probeResp.status = OK
    /\ LimitHeader = Present(<<"5", ";", "6", ";", "7">>)
    /\ RemainingHeader = Present(<<"0", "0", "7">> \o Window)
    /\ result.tag = "Ok"
    /\ result.limit = Limit(<<7>>, <<5>>)

\* C5: the probe request is never sent before the token request has completed
\* with a token, and at most one network call is outstanding in every state.
C5_StrictlySequential ==
    /\ Cardinality(inflight) <= 1
    /\ sent \in {<<>>, <<"token">>, <<"token", "probe">>}
    /\ probeReq.sent =>
          /\ tokenResp.delivered
          /\ tokenResult.tag = "Ok"
          /\ "token" \notin inflight
          /\ probeReq.bearer = tokenResult.token.token
          /\ probeReq.bearer # None
    /\ "probe" \in inflight => probeReq.sent
    /\ "token" \in inflight => tokenReq.sent /\ tokenResult.tag = "None"

C5_Witness ==
    /\ inflight = {"probe"}
    /\ sent = <<"token", "probe">>
    /\ tokenResult.tag = "Ok"
    /\ ~probeResp.delivered

\* C6: when token acquisition ends in an error the run ends with that error,
\* no probe request is ever issued and the token request is not sent again.
C6_TokenErrorEndsRun ==
    /\ tokenResult.tag = "Err" =>
          /\ pc = "exited"
          /\ exit = tokenResult.err
          /\ ~probeReq.sent
          /\ sent = <<"token">>
          /\ inflight = {}
          /\ result = NoResult
          /\ stdout = <<>>
    /\ (/\ tokenReq.auth
        /\ tokenResp.delivered
        /\ tokenResp.sent_ok
        /\ tokenResp.status = UNAUTHORIZED
        /\ pc # "token_wait") =>
          /\ tokenResult.tag = "Err"
          /\ ~probeReq.sent
    /\ Len(SelectSeq(sent, LAMBDA c : c = "token")) <= 1

C6_Witness ==
    /\ tokenReq.auth
    /\ tokenResp.sent_ok
    /\ tokenResp.status = UNAUTHORIZED
    /\ tokenResult.tag = "Err"
    /\ pc = "exited"
    /\ ~probeReq.sent

\* C7: get_limit yields either a Limit whose two fields were both parsed from
\* the one 200 answer, or an error with no Limit; a value parsed from one
\* header is never exposed when the other header fails.
C7_NoPartialResult ==
    result.tag # "None" =>
        /\ result.tag = "Ok" =>
              /\ probeResp.sent_ok
              /\ probeResp.status = OK
              /\ HeaderGood(LimitHeader)
              /\ HeaderGood(RemainingHeader)
              /\ result.limit = Limit(HeaderNumber(RemainingHeader), HeaderNumber(LimitHeader))
              /\ pc = "done"
        /\ result.tag = "Err" =>
              /\ result.limit = NoLimit
              /\ stdout = <<>>
              /\ pc = "exited"
              /\ exit = result.err
        /\ (HeaderGood(LimitHeader) # HeaderGood(RemainingHeader)) => result.tag = "Err"

C7_Witness ==
    /\ Answered
    /\ probeResp.status = OK
    /\ HeaderGood(LimitHeader)
    /\ ~RemainingHeader.present
    /\ result.tag = "Err"
    /\ stdout = <<>>

CharOfValue(d) == CHOOSE c \in DecimalChars : ValueOfChar(c) = d

\* the decimal numeral of a number
Numeral(n) == [i \in 1..Len(n) |-> CharOfValue(n[i])]

\* C8: ratelimit-limit maps to total, ratelimit-remaining to remaining, and the
\* printed form is remaining/total: limit 100 and remaining 97 print "97/100".
C8_MappingAndDisplay ==
    /\ (Answered /\ probeResp.status = OK
          /\ HeaderGood(LimitHeader) /\ HeaderGood(RemainingHeader)) =>
          /\ result.tag = "Ok"
          /\ result.limit.total = HeaderNumber(LimitHeader)
          /\ result.limit.remaining = HeaderNumber(RemainingHeader)
          /\ stdout = << Numeral(HeaderNumber(RemainingHeader)) \o <<"/">>
                           \o Numeral(HeaderNumber(LimitHeader)) >>
    /\ (/\ Answered
        /\ probeResp.status = OK
        /\ LimitHeader = Present(<<"1", "0", "0">> \o Window)
        /\ RemainingHeader = Present(<<"9", "7">> \o Window)) =>
          /\ result = OkLimit(Limit(<<9, 7>>, <<1, 0, 0>>))
          /\ stdout = << <<"9", "7", "/", "1", "0", "0">> >>

C8_Witness ==
    /\ ~tokenReq.auth
    /\ tokenResult = OkToken([token |-> "abc"])
    /\ probeReq.bearer = "abc"
    /\ probeResp.status = OK
    /\ LimitHeader = Present(<<"1", "0", "0">> \o Window)
    /\ RemainingHeader = Present(<<"9", "7">> \o Window)
    /\ result = OkLimit(Limit(<<9, 7>>, <<1, 0, 0>>))
    /\ stdout = << <<"9", "7", "/", "1", "0", "0">> >>
    /\ pc = "done"

\* C9: a 401 or 403 answer to the credentialed token request gives an Auth
\* error, a different kind from the Connection error of a failed call.
C9_AuthRejectionIsAuthError ==
    (tokenReq.auth /\ tokenResult.tag # "None") =>
        /\ (tokenResp.sent_ok /\ tokenResp.status \in {UNAUTHORIZED, FORBIDDEN}) =>
              /\ tokenResult.tag = "Err"
              /\ tokenResult.err.kind = "Auth"
              /\ exit.kind = "Auth"
        /\ ~tokenResp.sent_ok =>
              /\ tokenResult.tag = "Err"
              /\ tokenResult.err.kind = "Connection"
              /\ exit.kind = "Connection"

C9_Witness ==
    /\ tokenReq.auth
    /\ tokenResp.sent_ok
    /\ tokenResp.status = FORBIDDEN
    /\ tokenResult.err.kind = "Auth"
    /\ pc = "exited"

Terminal == {"Success", "OverLimit", "Failed"}

ProbesSent == Len(SelectSeq(sent, LAMBDA c : c = "probe"))

ProbeStateInv ==
    /\ ProbesSent <= 1
    /\ tokenResult.tag = "Ok" => ProbesSent = 1 /\ probeReq.bearer = tokenResult.token.token
    /\ ProbeState = "Unsent" => ProbesSent = 0
    /\ ProbeState = "Success" => pc = "done" /\ result.tag = "Ok" /\ Len(stdout) = 1
    /\ ProbeState = "OverLimit" => pc = "exited" /\ exit = result.err /\ exit.kind = "OverLimit"
    /\ ProbeState = "Failed" =>
          pc = "exited" /\ exit = result.err /\ exit.kind \in {"Connection", "Parsing"}
    /\ ProbeState \in Terminal => inflight = {}

ProbeStateStep ==
    ProbeState' # ProbeState =>
        \/ ProbeState = "Unsent" /\ ProbeState' = "Sent"
        \/ ProbeState = "Sent" /\ ProbeState' \in Terminal

\* C10: a probe goes Unsent -> Sent -> {Success, OverLimit, Failed} and nowhere
\* else: a token obtained is used for exactly one probe request, no terminal
\* state is left again, and a probe that was answered (or whose call failed)
\* reaches one terminal state, returned as a Limit or a typed error.
C10_ProbeStateMachine ==
    /\ []ProbeStateInv
    /\ [][ProbeStateStep]_vars
    /\ (probeResp.delivered ~> (ProbeState \in Terminal /\ pc \in {"done", "exited"}))

C10_Witness ==
    /\ ProbeState = "OverLimit"
    /\ ProbesSent = 1
    /\ pc = "exited"

====
